---------------------------- MODULE Spec2Model ----------------------------
(***************************************************************************)
(* A model of exif-google-gps.py: GeoData (the location index built from   *)
(* a Google location history), JpegFile (timestamp extraction and GPS tag  *)
(* encoding) and the per-photo loop of main().                             *)
(*                                                                         *)
(* Representation of numbers.  The program computes with Python floats.    *)
(* A sample is the tuple (timestampMs/1000, latitudeE7/1e7,                *)
(* longitudeE7/1e7); the model keeps each component as the integer         *)
(* numerator of that quotient (milliseconds, 1e-7 degrees).  The scaling   *)
(* is strictly increasing and exact enough to be injective on the ranges   *)
(* used, so order and equality of the floats are order and equality of     *)
(* the numerators.  Seconds (photo timestamps, offsets, max_delta) are     *)
(* multiplied by 1000 where the code mixes them with sample timestamps.    *)
(***************************************************************************)
EXTENDS Integers, Sequences, FiniteSets, TLC

VARIABLES
    dataset,    \* the 'locations' list of the location history JSON file
    dumpFile,   \* the '<name>.bin' cache file: [exists, bytes]
    d,          \* GeoData._d: [kind: "none" | "set" | "list", set, list]
    query,      \* arguments of the last call made on the GeoData object
    result,     \* what that call returned or raised
    photos,     \* the JPG files: the tag dictionary piexif.load gives for each
    jpgTs,      \* JpegFile._ts of the object opened on each file
    tz,         \* utc offset of the machine's local time zone, in seconds
    args,       \* main's parsed command line
    pc,         \* where main() is: "start", "loop", "done" or "crashed"
    pos,        \* how many of args.files the loop has taken
    outcome,    \* history: what the loop did with each file it got through
    err         \* the exception that ended main(), if one did

geoVars == <<dataset, dumpFile, d>>
callVars == <<query, result>>
jpgVars == <<photos, jpgTs, tz>>
mainVars == <<args, pc, pos, outcome, err>>
vars == <<geoVars, callVars, jpgVars, mainVars>>

-----------------------------------------------------------------------------
(* Bounds of the model *)

MaxEntries == 3      \* entries in the location history file

(* Raw entries a location history may hold: timestampMs (a digit string,   *)
(* int()-ed by save), latitudeE7, longitudeE7.                             *)
RawTimestampsMs == {100000, 200000}
RawLatitudesE7 == {-334560000, 23000000}
RawLongitudesE7 == {0}

RawEntries ==
    [timestampMs : RawTimestampsMs, latitudeE7 : RawLatitudesE7,
     longitudeE7 : RawLongitudesE7]

RECURSIVE SeqsUpTo(_, _)
SeqsUpTo(S, n) ==
    IF n = 0 THEN {<<>>}
    ELSE LET shorter == SeqsUpTo(S, n - 1)
         IN shorter \cup {Append(s, x) : s \in {t \in shorter : Len(t) = n - 1}, x \in S}

(* Arguments the callers of search() pass: ts in seconds, max_delta in     *)
(* seconds.                                                                *)
QueryTimestamps == {99, 100, 140, 150, 160, 200, 500}
QueryMaxDeltas == {-60, 0, 10, 60}

-----------------------------------------------------------------------------
(* GeoData *)

Abs(x) == IF x < 0 THEN -x ELSE x

(* GeoData.save: the tuple added to the set, as numerators (see above). *)
save(location) ==
    <<location.timestampMs, location.latitudeE7, location.longitudeE7>>

(* Python's order on tuples: lexicographic. *)
TupleLess(a, b) ==
    \/ a[1] < b[1]
    \/ a[1] = b[1] /\ a[2] < b[2]
    \/ a[1] = b[1] /\ a[2] = b[2] /\ a[3] < b[3]

(* sorted() of a set of tuples. *)
RECURSIVE sorted(_)

(* As sorted, with the order of the comparison turned round. *)
sortedDescending(S) ==
    IF S = {} THEN <<>>
    ELSE LET m == CHOOSE x \in S : \A y \in S : ~TupleLess(x, y)
         IN <<m>> \o sorted(S \ {m})

sorted(S) ==
    IF S = {} THEN <<>>
    ELSE LET m == CHOOSE x \in S : \A y \in S : ~TupleLess(y, x)
         IN <<m>> \o sorted(S \ {m})

NoGeo == [kind |-> "none", set |-> {}, list |-> <<>>]
AsSet(S) == [kind |-> "set", set |-> S, list |-> <<>>]
AsList(l) == [kind |-> "list", set |-> {}, list |-> l]

(* As compile, with the isinstance test turned round. *)
compileIfList(g) ==
    IF g.kind = "list" THEN AsList(sorted({g.list[i] : i \in DOMAIN g.list})) ELSE g

(* GeoData.compile: sorts unless _d already is a list. *)
compile(g) ==
    IF g.kind # "list" THEN AsList(sorted(g.set)) ELSE g

(* pickle.dumps of a list of 3-tuples: the length, then the components in  *)
(* order.                                                                  *)
RECURSIVE Flatten(_)
Flatten(l) ==
    IF l = <<>> THEN <<>>
    ELSE <<Head(l)[1], Head(l)[2], Head(l)[3]>> \o Flatten(Tail(l))

PickleDumps(l) == <<Len(l)>> \o Flatten(l)

(* pickle.load: rebuilds the list from the stream. *)
PickleLoad(bytes) ==
    [i \in 1..bytes[1] |-> <<bytes[3 * i - 1], bytes[3 * i], bytes[3 * i + 1]>>]

(* GeoData.dump: compile(), then the pickled _d.  Returns the object after *)
(* the call and the bytes.                                                 *)
dump(g) ==
    LET c == compile(g) IN [geo |-> c, bytes |-> PickleDumps(c.list)]

Ok(lat, lng) == [kind |-> "ok", lat |-> lat, lng |-> lng]
Raise(what) == [kind |-> what, lat |-> 0, lng |-> 0]

(* max_delta as main() passes it: the int default, or the string argparse  *)
(* stores when --max-delta is given (the option has no type=).             *)
IntArg(n) == [str |-> FALSE, n |-> n]
StrArg(n) == [str |-> TRUE, n |-> n]

(* The loop of GeoData.search from index idx on.  l is _d, ts the target   *)
(* in seconds.  Raises: "No data available", "Max delta", and              *)
(* ValueError(ts), named "No interval" here; "TypeError" is float > str.   *)
RECURSIVE SearchFrom(_, _, _, _)

(* As SearchFrom, the nearer endpoint chosen with <= instead of <. *)
SearchFromTieFirst(l, idx, ts, max_delta) ==
    IF idx > Len(l) - 1 THEN Raise("No interval")
    ELSE LET delta_prev == l[idx][1] - ts * 1000
             delta_post == l[idx + 1][1] - ts * 1000
         IN IF ~(delta_prev <= 0 /\ delta_post >= 0)
            THEN SearchFrom(l, idx + 1, ts, max_delta)
            ELSE IF max_delta.str THEN Raise("TypeError")
            ELSE IF delta_prev > max_delta.n * 1000 /\ delta_post > max_delta.n * 1000
            THEN Raise("Max delta")
            ELSE IF Abs(delta_prev) <= Abs(delta_post)
            THEN Ok(l[idx][2], l[idx][3])
            ELSE Ok(l[idx + 1][2], l[idx + 1][3])

(* As SearchFrom, the interval test made strict. *)
SearchFromStrict(l, idx, ts, max_delta) ==
    IF idx > Len(l) - 1 THEN Raise("No interval")
    ELSE LET delta_prev == l[idx][1] - ts * 1000
             delta_post == l[idx + 1][1] - ts * 1000
         IN IF ~(delta_prev < 0 /\ delta_post > 0)
            THEN SearchFrom(l, idx + 1, ts, max_delta)
            ELSE IF max_delta.str THEN Raise("TypeError")
            ELSE IF delta_prev > max_delta.n * 1000 /\ delta_post > max_delta.n * 1000
            THEN Raise("Max delta")
            ELSE IF Abs(delta_prev) < Abs(delta_post)
            THEN Ok(l[idx][2], l[idx][3])
            ELSE Ok(l[idx + 1][2], l[idx + 1][3])

SearchFrom(l, idx, ts, max_delta) ==
    IF idx > Len(l) - 1 THEN Raise("No interval")
    ELSE LET delta_prev == l[idx][1] - ts * 1000
             delta_post == l[idx + 1][1] - ts * 1000
         IN IF ~(delta_prev <= 0 /\ delta_post >= 0)
            THEN SearchFrom(l, idx + 1, ts, max_delta)
            ELSE IF max_delta.str THEN Raise("TypeError")
            ELSE IF delta_prev > max_delta.n * 1000 /\ delta_post > max_delta.n * 1000
            THEN Raise("Max delta")
            ELSE IF Abs(delta_prev) < Abs(delta_post)
            THEN Ok(l[idx][2], l[idx][3])
            ELSE Ok(l[idx + 1][2], l[idx + 1][3])

search(l, ts, max_delta) ==
    IF Len(l) < 2 THEN Raise("No data available")
    ELSE SearchFrom(l, 1, ts, max_delta)

(* GeoData.__init__: load the cache if there is one, else parse the        *)
(* history, save every entry, dump and write the cache.  Returns the       *)
(* object and the cache file afterwards.                                   *)
GeoDataInit(locations, file) ==
    IF file.exists
    THEN [geo |-> AsList(PickleLoad(file.bytes)), file |-> file]
    ELSE LET filled == AsSet({save(locations[i]) : i \in DOMAIN locations})
             dumped == dump(filled)
         IN [geo |-> dumped.geo, file |-> [exists |-> TRUE, bytes |-> dumped.bytes]]

-----------------------------------------------------------------------------
(* Python floats (IEEE 754 binary64: 53 significant bits, round to nearest *)
(* even).  A non-negative float is [ip, digs]: its integer part and the    *)
(* digits of its fraction in base 128 (7 bits a digit), most significant   *)
(* first.                                                                  *)

(* F applied to the value of x.  TLC evaluates a LET-bound name at every   *)
(* use; a bound variable holds the value.                                  *)
Bind(x, F(_)) == CHOOSE y \in {F(v) : v \in {x}} : TRUE

RECURSIVE BitLen(_)
BitLen(n) == IF n = 0 THEN 0 ELSE 1 + BitLen(n \div 2)

RECURSIVE Pow2(_)
Pow2(k) == IF k = 0 THEN 1 ELSE 2 * Pow2(k - 1)

(* Bit position (1 = first bit after the point) of the first 1 of the      *)
(* fraction, 0 if the fraction is zero.                                    *)
RECURSIVE FirstOne(_)
FirstOne(digs) ==
    IF digs = <<>> THEN 0
    ELSE IF Head(digs) # 0 THEN 8 - BitLen(Head(digs))
    ELSE Bind(FirstOne(Tail(digs)), LAMBDA p : IF p = 0 THEN 0 ELSE p + 7)

(* digs + unit added to its last digit: [digs, carry]. *)
RECURSIVE AddLast(_, _)
AddLast(digs, unit) ==
    IF digs = <<>> THEN [digs |-> <<>>, carry |-> unit]
    ELSE Bind(AddLast(Tail(digs), IF Len(digs) = 1 THEN 0 ELSE unit),
              LAMBDA rest :
                  LET val == Head(digs) + rest.carry + IF Len(digs) = 1 THEN unit ELSE 0
                  IN [digs |-> <<val % 128>> \o rest.digs, carry |-> val \div 128])

(* The exact number ip + 0.digs (+ something below the last digit when     *)
(* sticky) rounded to 53 significant bits, ties to even.                   *)
RoundSig(ip, digs, sticky) ==
    LET lead == FirstOne(digs)
        keep == IF ip > 0 THEN 53 - BitLen(ip) ELSE lead + 52
        a == keep \div 7
        b == keep % 7
    IN IF (ip = 0 /\ lead = 0) \/ 7 * Len(digs) <= keep THEN [ip |-> ip, digs |-> digs]
       ELSE LET dig == digs[a + 1]
                hi == dig \div Pow2(7 - b)
                low == dig % Pow2(7 - b)
                guard == low \div Pow2(6 - b)
                rest == \/ sticky
                        \/ low % Pow2(6 - b) # 0
                        \/ \E k \in (a + 2)..Len(digs) : digs[k] # 0
                odd == IF b > 0 THEN hi % 2 = 1
                       ELSE IF a > 0 THEN digs[a] % 2 = 1
                       ELSE ip % 2 = 1
                kept == IF b > 0 THEN SubSeq(digs, 1, a) \o <<hi * Pow2(7 - b)>>
                        ELSE SubSeq(digs, 1, a)
            IN IF guard = 1 /\ (rest \/ odd)
               THEN Bind(AddLast(kept, IF b > 0 THEN Pow2(7 - b) ELSE 1),
                         LAMBDA inc : [ip |-> ip + inc.carry, digs |-> inc.digs])
               ELSE [ip |-> ip, digs |-> kept]

(* The digits of r / den (r < den) by long division, until `left` digits   *)
(* from the first non-zero one on are out; sticky tells whether a          *)
(* remainder is left.                                                      *)
RECURSIVE DivDigits(_, _, _, _)
DivDigits(r, den, started, left) ==
    IF r = 0 THEN [digs |-> <<>>, sticky |-> FALSE]
    ELSE IF started /\ left = 0 THEN [digs |-> <<>>, sticky |-> TRUE]
    ELSE LET dig == (r * 128) \div den
         IN Bind(DivDigits((r * 128) % den, den, started \/ dig # 0,
                           IF started \/ dig # 0 THEN left - 1 ELSE left),
                 LAMBDA rest : [digs |-> <<dig>> \o rest.digs, sticky |-> rest.sticky])

(* n / den for ints n >= 0, den > 0: Python's true division, correctly     *)
(* rounded.  9 digits from the first non-zero one hold the 53 significant  *)
(* bits and the bit after them.                                            *)
FloatDiv(n, den) ==
    Bind(DivDigits(n % den, den, n \div den > 0, 9),
         LAMBDA q : RoundSig(n \div den, q.digs, q.sticky))

(* 0.digs * c for a small int c, exactly: [digs, carry], carry being the   *)
(* integer part.                                                           *)
RECURSIVE MulDigits(_, _)
MulDigits(digs, c) ==
    IF digs = <<>> THEN [digs |-> <<>>, carry |-> 0]
    ELSE Bind(MulDigits(Tail(digs), c),
              LAMBDA rest :
                  LET val == Head(digs) * c + rest.carry
                  IN [digs |-> <<val % 128>> \o rest.digs, carry |-> val \div 128])

(* The float product 0.digs * c. *)
FloatMul(digs, c) ==
    Bind(MulDigits(digs, c), LAMBDA m : RoundSig(m.carry, m.digs, FALSE))

(* round(x, 5) of the float x = [ip, digs], as the integer number of       *)
(* 1e-5 units: the exact binary value rounded to 5 decimals, ties to even. *)
Round5(x) ==
    Bind(MulDigits(x.digs, 100000),
         LAMBDA m :
             LET whole == x.ip * 100000 + m.carry
                 half == m.digs # <<>> /\ m.digs[1] >= 64
                 rest == \/ m.digs # <<>> /\ m.digs[1] > 64
                         \/ \E k \in 2..Len(m.digs) : m.digs[k] # 0
             IN IF half /\ (rest \/ whole % 2 = 1) THEN whole + 1 ELSE whole)

-----------------------------------------------------------------------------
(* JpegFile *)

E7 == 10000000        \* save() divides latitudeE7 and longitudeE7 by it

(* to_deg of the float value = valueE7 / 1e7: (deg, min, sec, loc_value),  *)
(* sec in units of 1e-5 second.                                            *)
to_deg(valueE7, loc) ==
    LET loc_value == IF valueE7 < 0 THEN loc[1]
                     ELSE IF valueE7 > 0 THEN loc[2]
                     ELSE ""
    IN Bind(FloatDiv(Abs(valueE7), E7),
            LAMBDA abs_value :
                Bind(FloatMul(abs_value.digs, 60),
                     LAMBDA t1 :
                         [deg |-> abs_value.ip,
                          min |-> t1.ip,
                          sec |-> Round5(FloatMul(t1.digs, 60)),
                          loc_value |-> loc_value]))

RECURSIVE GCD(_, _)
GCD(a, b) == IF b = 0 THEN a ELSE GCD(b, a % b)

(* change_to_rational of the number num / scale, scale being 1 for an int  *)
(* and 100000 for the rounded seconds: Fraction(str(number)) in lowest     *)
(* terms.                                                                  *)
change_to_rational(num, scale) ==
    LET g == GCD(num, scale) IN <<num \div g, scale \div g>>

(* The 'GPS' dictionary write_lat_lng builds. *)
GPSBlock(lat, lng) ==
    LET lat_deg == to_deg(lat, <<"S", "N">>)
        lng_deg == to_deg(lng, <<"W", "E">>)
        exiv_lat == <<change_to_rational(lat_deg.deg, 1),
                      change_to_rational(lat_deg.min, 1),
                      change_to_rational(lat_deg.sec, 100000)>>
        exiv_lng == <<change_to_rational(lng_deg.deg, 1),
                      change_to_rational(lng_deg.min, 1),
                      change_to_rational(lng_deg.sec, 100000)>>
    IN [GPSVersionID |-> <<2, 0, 0, 0>>,
        GPSLatitudeRef |-> lat_deg.loc_value,
        GPSLatitude |-> exiv_lat,
        GPSLongitudeRef |-> lng_deg.loc_value,
        GPSLongitude |-> exiv_lng]

(* JpegFile.write_lat_lng: the tag dictionary afterwards, in memory and,   *)
(* through piexif.insert, in the file.                                     *)
write_lat_lng(exif, lat, lng) ==
    [exif EXCEPT !.GPS = GPSBlock(lat, lng)]

(* As has_geo, looking for the latitude tag only. *)
has_geoLatitudeOnly(exif) ==
    "GPSLatitude" \in DOMAIN exif.GPS

(* JpegFile.has_geo *)
has_geo(exif) ==
    "GPSLatitude" \in DOMAIN exif.GPS \/ "GPSLongitude" \in DOMAIN exif.GPS

(* One pass of the loop of _get_timestmap over a tag.  A tag value         *)
(* 'YYYY:MM:DD HH:MM:SS' is [date, hour, sec]: days since 1970-01-01, the  *)
(* hour field, and the seconds into that hour.  The result is None, the    *)
(* naive datetime in seconds, or the AttributeError that                   *)
(* datetime.timedelta raises (datetime being the class imported from the   *)
(* datetime module).                                                       *)
ParseTag(exif, dt_tag) ==
    IF dt_tag \notin DOMAIN exif.Exif THEN [kind |-> "None", v |-> 0]
    ELSE LET dt == exif.Exif[dt_tag]
         IN IF dt.hour = 24 THEN [kind |-> "AttributeError", v |-> 0]
            ELSE [kind |-> "datetime",
                  v |-> dt.date * 86400 + dt.hour * 3600 + dt.sec]

TsOk(ts) == [kind |-> "ok", ts |-> ts]
TsRaise(what) == [kind |-> what, ts |-> 0]

(* JpegFile._get_timestmap; time.mktime reads the naive datetime as local  *)
(* time.                                                                   *)
get_timestmap(exif, zone) ==
    LET original == ParseTag(exif, "DateTimeOriginal")
        digitized == ParseTag(exif, "DateTimeDigitized")
    IN IF original.kind = "AttributeError" \/ digitized.kind = "AttributeError"
       THEN TsRaise("AttributeError")
       ELSE IF original.kind = "None" /\ digitized.kind = "None"
       THEN TsRaise("exif tags not found")
       ELSE IF original.kind # "None" /\ digitized.kind # "None"
               /\ original.v # digitized.v
       THEN TsRaise("original != digitized")
       ELSE LET dt == IF digitized.kind # "None" THEN digitized ELSE original
            IN TsOk(dt.v - zone)

(* JpegFile.timestamp: computed once, then kept in _ts. *)
NoTs == [set |-> FALSE, ts |-> 0]
timestamp(exif, memo, zone) ==
    IF memo.set THEN [value |-> TsOk(memo.ts), memo |-> memo]
    ELSE LET got == get_timestmap(exif, zone)
         IN [value |-> got,
             memo |-> IF got.kind = "ok" THEN [set |-> TRUE, ts |-> got.ts] ELSE memo]

-----------------------------------------------------------------------------
(* Values the three specifications start from *)

NoCall == [op |-> "none"]
NoResult == [kind |-> "none"]
NoArgs == [dry_run |-> FALSE, offset |-> 0, max_delta |-> IntArg(900)]

(* A function restricted to the keys in D: a dictionary holding only       *)
(* those tags.                                                             *)
Restrict(f, D) == [k \in D |-> f[k]]

(* Date tags a photo may carry: 1970:01:01 00:01:40, 00:02:30 and          *)
(* 24:00:00.                                                               *)
TagValues ==
    {[date |-> 0, hour |-> 0, sec |-> 100],
     [date |-> 0, hour |-> 0, sec |-> 150],
     [date |-> 0, hour |-> 24, sec |-> 0]}

ExifDicts ==
    UNION {[D -> TagValues] : D \in SUBSET {"DateTimeOriginal", "DateTimeDigitized"}}

(* GPS sections a photo may already carry: none of the tags, the latitude  *)
(* only, the longitude only, or a whole block.                             *)
OldGPS ==
    [GPSVersionID |-> <<2, 0, 0, 0>>,
     GPSLatitudeRef |-> "N",
     GPSLatitude |-> <<<<40, 1>>, <<25, 1>>, <<0, 1>>>>,
     GPSLongitudeRef |-> "W",
     GPSLongitude |-> <<<<3, 1>>, <<42, 1>>, <<0, 1>>>>]

GPSDicts ==
    {Restrict(OldGPS, {}),
     Restrict(OldGPS, {"GPSLatitudeRef", "GPSLatitude"}),
     Restrict(OldGPS, {"GPSLongitudeRef", "GPSLongitude"}),
     OldGPS}

Photos == [Exif : ExifDicts, GPS : GPSDicts]

TimeZones == {0, 3600}

-----------------------------------------------------------------------------
(* Specification of the GeoData object: a process constructs it, then      *)
(* calls search, compile and dump in any order; a later process finds the  *)
(* cache file the earlier one wrote.  The history file may have grown in   *)
(* between.                                                                *)

Init ==
    /\ dataset \in SeqsUpTo(RawEntries, MaxEntries)
    /\ dumpFile = [exists |-> FALSE, bytes |-> <<>>]
    /\ d = NoGeo
    /\ query = NoCall
    /\ result = NoResult
    /\ photos = <<>>
    /\ jpgTs = <<>>
    /\ tz = 0
    /\ args = NoArgs
    /\ pc = "start"
    /\ pos = 0
    /\ outcome = <<>>
    /\ err = "none"

Construct ==
    LET made == GeoDataInit(dataset, dumpFile)
    IN /\ d' = made.geo
       /\ dumpFile' = made.file
       /\ query' = [op |-> "init"]
       /\ result' = NoResult
       /\ UNCHANGED <<dataset, jpgVars, mainVars>>

Search ==
    /\ d.kind = "list"
    /\ \E ts \in QueryTimestamps, md \in QueryMaxDeltas :
          /\ query' = [op |-> "search", ts |-> ts, max_delta |-> md]
          /\ result' = search(d.list, ts, IntArg(md))
    /\ UNCHANGED <<geoVars, jpgVars, mainVars>>

Compile ==
    /\ d.kind # "none"
    /\ d' = compile(d)
    /\ query' = [op |-> "compile"]
    /\ result' = NoResult
    /\ UNCHANGED <<dataset, dumpFile, jpgVars, mainVars>>

Dump ==
    /\ d.kind # "none"
    /\ d' = dump(d).geo
    /\ query' = [op |-> "dump"]
    /\ result' = [kind |-> "bytes", bytes |-> dump(d).bytes]
    /\ UNCHANGED <<dataset, dumpFile, jpgVars, mainVars>>

(* The user's location history grows between two runs of the program. *)
HistoryGrows ==
    /\ Len(dataset) < MaxEntries
    /\ \E e \in RawEntries : dataset' = Append(dataset, e)
    /\ UNCHANGED <<dumpFile, d, callVars, jpgVars, mainVars>>

Next == Construct \/ Search \/ Compile \/ Dump \/ HistoryGrows

Spec == Init /\ [][Next]_vars

-----------------------------------------------------------------------------
(* Specification of a JpegFile object opened on one photo: its timestamp   *)
(* and has_geo properties are read and write_lat_lng is called, in any     *)
(* order.                                                                  *)

(* Coordinates handed to write_lat_lng, in 1e-7 degrees. *)
WriteLatitudesE7 == {-334560000, -1, 0, 23000000, 334500000, 900000000}
WriteLongitudesE7 == {-1799999999, 0, 23000000, 1800000000}

JpegInit ==
    /\ dataset = <<>>
    /\ dumpFile = [exists |-> FALSE, bytes |-> <<>>]
    /\ d = NoGeo
    /\ query = NoCall
    /\ result = NoResult
    /\ \E p \in Photos : photos = <<p>>
    /\ jpgTs = <<NoTs>>
    /\ tz \in TimeZones
    /\ args = NoArgs
    /\ pc = "start"
    /\ pos = 0
    /\ outcome = <<>>
    /\ err = "none"

Timestamp ==
    \E p \in DOMAIN photos :
        LET got == timestamp(photos[p], jpgTs[p], tz)
        IN /\ jpgTs' = [jpgTs EXCEPT ![p] = got.memo]
           /\ query' = [op |-> "timestamp", photo |-> p]
           /\ result' = got.value
           /\ UNCHANGED <<geoVars, photos, tz, mainVars>>

HasGeo ==
    \E p \in DOMAIN photos :
        /\ query' = [op |-> "has_geo", photo |-> p]
        /\ result' = [kind |-> "bool", value |-> has_geo(photos[p])]
        /\ UNCHANGED <<geoVars, jpgVars, mainVars>>

WriteLatLng ==
    \E p \in DOMAIN photos, lat \in WriteLatitudesE7, lng \in WriteLongitudesE7 :
        /\ photos' = [photos EXCEPT ![p] = write_lat_lng(@, lat, lng)]
        /\ query' = [op |-> "write_lat_lng", photo |-> p, lat |-> lat, lng |-> lng]
        /\ result' = NoResult
        /\ UNCHANGED <<geoVars, jpgTs, tz, mainVars>>

JpegNext == Timestamp \/ HasGeo \/ WriteLatLng

JpegSpec == JpegInit /\ [][JpegNext]_vars

-----------------------------------------------------------------------------
(* Specification of main(): the GeoData is built, then the loop takes the  *)
(* files one by one.  An exception nothing catches ends the process.       *)

MaxFiles == 2        \* files on the command line

(* The location history and the photos main() is run on. *)
MainEntries ==
    {[timestampMs |-> 100000, latitudeE7 |-> -334560000, longitudeE7 |-> 0],
     [timestampMs |-> 200000, latitudeE7 |-> 23000000, longitudeE7 |-> 0]}

Photo(original, digitized, gps) ==
    LET o == IF original = <<>> THEN <<>>
             ELSE [k \in {"DateTimeOriginal"} |-> original[1]]
        g == IF digitized = <<>> THEN <<>>
             ELSE [k \in {"DateTimeDigitized"} |-> digitized[1]]
    IN [Exif |-> [k \in DOMAIN o \cup DOMAIN g |->
                     IF k \in DOMAIN o THEN o[k] ELSE g[k]],
        GPS |-> gps]

At(sec) == <<[date |-> 0, hour |-> 0, sec |-> sec]>>

MainPhotos ==
    {Photo(At(150), At(150), Restrict(OldGPS, {})),
     Photo(<<>>, At(100), OldGPS),
     Photo(At(150), <<>>, Restrict(OldGPS, {"GPSLongitudeRef", "GPSLongitude"})),
     Photo(<<>>, <<>>, Restrict(OldGPS, {})),
     Photo(At(100), At(150), Restrict(OldGPS, {})),
     Photo(<<[date |-> 0, hour |-> 24, sec |-> 0]>>, <<>>, Restrict(OldGPS, {}))}

MainArgs ==
    [dry_run : BOOLEAN, offset : {0, 3600}, max_delta : {IntArg(900), StrArg(900)}]

MainInit ==
    /\ dataset \in SeqsUpTo(MainEntries, MaxEntries)
    /\ dumpFile = [exists |-> FALSE, bytes |-> <<>>]
    /\ d = NoGeo
    /\ query = NoCall
    /\ result = NoResult
    /\ photos \in SeqsUpTo(MainPhotos, MaxFiles) \ {<<>>}
    /\ jpgTs = [p \in DOMAIN photos |-> NoTs]
    /\ tz \in TimeZones
    /\ args \in MainArgs
    /\ pc = "start"
    /\ pos = 0
    /\ outcome = <<>>
    /\ err = "none"

(* geo = GeoData(args.geo) *)
Start ==
    /\ pc = "start"
    /\ LET made == GeoDataInit(dataset, dumpFile)
       IN d' = made.geo /\ dumpFile' = made.file
    /\ pc' = "loop"
    /\ UNCHANGED <<dataset, callVars, jpgVars, args, pos, outcome, err>>

(* What one pass of the loop over args.files does with the tag dictionary  *)
(* exif: [raised, did, exif, memo].                                        *)
LoopBody(exif, geo, a, zone) ==
    Bind(timestamp(exif, NoTs, zone),
         LAMBDA t :
             IF t.value.kind # "ok"
             THEN [raised |-> t.value.kind, did |-> "none", exif |-> exif, memo |-> t.memo]
             ELSE Bind(search(geo.list, t.value.ts + a.offset, a.max_delta),
                       LAMBDA found :
                           IF found.kind # "ok"
                           THEN [raised |-> found.kind, did |-> "none",
                                 exif |-> exif, memo |-> t.memo]
                           ELSE IF a.dry_run
                           THEN [raised |-> "none", did |-> "dry run",
                                 exif |-> exif, memo |-> t.memo]
                           ELSE IF has_geo(exif)
                           THEN [raised |-> "none", did |-> "skipping",
                                 exif |-> exif, memo |-> t.memo]
                           ELSE [raised |-> "none", did |-> "written",
                                 exif |-> write_lat_lng(exif, found.lat, found.lng),
                                 memo |-> t.memo]))

(* for jpg in args.files: one file.  Nothing in main() catches what the    *)
(* body raises.                                                            *)
ProcessPhoto ==
    /\ pc = "loop"
    /\ pos < Len(photos)
    /\ \E body \in {LoopBody(photos[pos + 1], d, args, tz)} :
          /\ photos' = [photos EXCEPT ![pos + 1] = body.exif]
          /\ jpgTs' = [jpgTs EXCEPT ![pos + 1] = body.memo]
          /\ IF body.raised # "none"
             THEN /\ pc' = "crashed"
                  /\ err' = body.raised
                  /\ UNCHANGED <<pos, outcome>>
             ELSE /\ pos' = pos + 1
                  /\ outcome' = Append(outcome, body.did)
                  /\ UNCHANGED <<pc, err>>
    /\ UNCHANGED <<geoVars, callVars, tz, args>>

(* The loop has taken every file. *)
Finish ==
    /\ pc = "loop"
    /\ pos = Len(photos)
    /\ pc' = "done"
    /\ UNCHANGED <<geoVars, callVars, jpgVars, args, pos, outcome, err>>

MainNext == Start \/ ProcessPhoto \/ Finish

MainSpec == MainInit /\ [][MainNext]_vars

-----------------------------------------------------------------------------
(* Properties of GeoData, under Spec *)

(* The pairs of neighbours of l whose timestamps have ts between them. *)
Bracketing(l, ts) ==
    {i \in 1..(Len(l) - 1) : l[i][1] <= ts * 1000 /\ ts * 1000 <= l[i + 1][1]}

(* The first of them, the one a scan from the start meets. *)
FirstBracket(l, ts) ==
    CHOOSE i \in Bracketing(l, ts) : \A j \in Bracketing(l, ts) : i <= j

(* How far a sample is from ts, in milliseconds. *)
Distance(sample, ts) == Abs(sample[1] - ts * 1000)

IsSortedByTimestamp(l) ==
    \A i, j \in DOMAIN l : i < j => l[i][1] <= l[j][1]

HasInversion(locations) ==
    \E i, j \in DOMAIN locations :
        i < j /\ locations[i].timestampMs > locations[j].timestampMs

SearchReturned == query.op = "search" /\ result.kind = "ok"

(* C1, as the spec states it: a search that succeeds returns the           *)
(* coordinates of the endpoint of the bracketing pair that is nearer in    *)
(* time to target_ts, and the earlier endpoint sample[i] when both are     *)
(* equally far.                                                            *)
C1_NearestTieEarlier ==
    SearchReturned =>
        /\ Bracketing(d.list, query.ts) # {}
        /\ LET i == FirstBracket(d.list, query.ts)
               prev == d.list[i]
               post == d.list[i + 1]
               near == IF Distance(post, query.ts) < Distance(prev, query.ts)
                       THEN post ELSE prev
           IN result.lat = near[2] /\ result.lng = near[3]

(* C1, amended: a search that succeeds returns the coordinates of the      *)
(* endpoint of the first bracketing pair that is nearer in time to         *)
(* target_ts, and the later endpoint sample[i+1] when both are equally     *)
(* far.                                                                    *)
C1_NearestTieLater ==
    SearchReturned =>
        /\ Bracketing(d.list, query.ts) # {}
        /\ LET i == FirstBracket(d.list, query.ts)
               prev == d.list[i]
               post == d.list[i + 1]
               near == IF Distance(prev, query.ts) < Distance(post, query.ts)
                       THEN prev ELSE post
           IN result.lat = near[2] /\ result.lng = near[3]

(* A search returned with target_ts midway between two samples at          *)
(* different places.                                                       *)
C1_Witness ==
    /\ SearchReturned
    /\ Bracketing(d.list, query.ts) # {}
    /\ LET i == FirstBracket(d.list, query.ts)
       IN /\ Distance(d.list[i], query.ts) = Distance(d.list[i + 1], query.ts)
          /\ Distance(d.list[i], query.ts) > 0
          /\ d.list[i][2] # d.list[i + 1][2]

(* C2: with max_delta >= 0, a search whose bracketing pair has both        *)
(* endpoints more than max_delta seconds from target_ts raises 'Max        *)
(* delta' and returns no coordinate.                                       *)
C2_ToleranceExceeded ==
    (/\ query.op = "search"
     /\ Len(d.list) >= 2
     /\ query.max_delta >= 0
     /\ Bracketing(d.list, query.ts) # {}
     /\ LET i == FirstBracket(d.list, query.ts)
        IN /\ Distance(d.list[i], query.ts) > query.max_delta * 1000
           /\ Distance(d.list[i + 1], query.ts) > query.max_delta * 1000)
    => result.kind = "Max delta"

(* C3: on an index of at least 2 samples, search raises ValueError(ts),    *)
(* no interval found, exactly when target_ts is before the first           *)
(* sample's timestamp or after the last one's.                             *)
C3_NoIntervalIffOutside ==
    (query.op = "search" /\ Len(d.list) >= 2) =>
        (result.kind = "No interval"
            <=> \/ query.ts * 1000 < d.list[1][1]
                \/ query.ts * 1000 > d.list[Len(d.list)][1])

(* A search at a sample's own timestamp found its interval, on an index    *)
(* of two samples at different times.                                      *)
C3_Witness ==
    /\ query.op = "search"
    /\ Len(d.list) >= 2
    /\ d.list[1][1] < d.list[Len(d.list)][1]
    /\ query.ts * 1000 = d.list[1][1]
    /\ result.kind = "ok"

(* C9: once a GeoData is constructed, from the history or from the cache   *)
(* an earlier construction wrote, _d is a list sorted by timestamp with    *)
(* no two equal tuples, and no search, compile or dump changes it.         *)
C9_SortedAndUnchanged ==
    /\ [](query.op # "none" =>
            /\ d.kind = "list"
            /\ IsSortedByTimestamp(d.list)
            /\ \A i, j \in DOMAIN d.list : i # j => d.list[i] # d.list[j])
    /\ [][(d.kind = "list" /\ query'.op \in {"search", "compile", "dump"})
            => d' = d]_vars

(* A search was made on an index of three samples built from a history    *)
(* that is not in time order.                                              *)
C9_Witness ==
    /\ query.op = "search"
    /\ Len(d.list) >= 3
    /\ HasInversion(dataset)

(* C10: compile() once, twice or three times on the working set of the     *)
(* history leaves the same sorted list, and dump() gives the same bytes    *)
(* after each; compile() on the constructed object changes nothing.        *)
C10_CompileIdempotent ==
    LET working == AsSet({save(dataset[i]) : i \in DOMAIN dataset})
        once == compile(working)
        twice == compile(once)
    IN /\ once.kind = "list"
       /\ IsSortedByTimestamp(once.list)
       /\ {once.list[i] : i \in DOMAIN once.list} = working.set
       /\ twice = once
       /\ compile(twice) = once
       /\ dump(once).bytes = dump(working).bytes
       /\ dump(dump(working).geo) = dump(working)
       /\ d.kind # "none" => compile(d) = d /\ dump(d).geo = d

(* compile() was called on an object holding two samples or more, built    *)
(* from a history that is not in time order.                               *)
C10_Witness ==
    /\ query.op = "compile"
    /\ Len(d.list) >= 2
    /\ HasInversion(dataset)

-----------------------------------------------------------------------------
(* Properties of JpegFile, under JpegSpec *)

(* The instant a date tag stands for, hour 24 being hour 00 of the next    *)
(* day.                                                                    *)
Instant(tag) ==
    (IF tag.hour = 24 THEN tag.date + 1 ELSE tag.date) * 86400
        + (tag.hour % 24) * 3600 + tag.sec

TimestampRead == query.op = "timestamp"

(* C6: reading the timestamp raises 'exif tags not found' when neither     *)
(* date tag is there, raises the mismatch error when both are there and    *)
(* stand for different instants, and otherwise returns the digitized       *)
(* instant if that tag is there, else the original one.                    *)
C6_ExtractTimestamp ==
    TimestampRead =>
        LET tags == photos[query.photo].Exif
            hasOriginal == "DateTimeOriginal" \in DOMAIN tags
            hasDigitized == "DateTimeDigitized" \in DOMAIN tags
        IN IF ~hasOriginal /\ ~hasDigitized
           THEN result.kind = "exif tags not found"
           ELSE IF /\ hasOriginal
                   /\ hasDigitized
                   /\ Instant(tags["DateTimeOriginal"]) # Instant(tags["DateTimeDigitized"])
           THEN result.kind = "original != digitized"
           ELSE /\ result.kind = "ok"
                /\ result.ts = Instant(IF hasDigitized THEN tags["DateTimeDigitized"]
                                       ELSE tags["DateTimeOriginal"]) - tz

(* C7: a date tag with hour 24 never makes the reading fail: read alone,   *)
(* it gives hour 00 of the next day.                                       *)
C7_Hour24Normalized ==
    (/\ TimestampRead
     /\ DOMAIN photos[query.photo].Exif = {"DateTimeOriginal"}
     /\ photos[query.photo].Exif["DateTimeOriginal"].hour = 24)
    => /\ result.kind = "ok"
       /\ result.ts =
            (photos[query.photo].Exif["DateTimeOriginal"].date + 1) * 86400
                + photos[query.photo].Exif["DateTimeOriginal"].sec - tz

(* The degrees, minutes and seconds (in 1e-5 second) of |v| / 1e7 degrees  *)
(* in exact arithmetic.                                                    *)
ExactDMS(v) ==
    LET minutesE7 == (Abs(v) % E7) * 60
        secondsE7 == (minutesE7 % E7) * 60
        down == secondsE7 \div 100
        left == secondsE7 % 100
    IN [deg |-> Abs(v) \div E7,
        min |-> minutesE7 \div E7,
        sec |-> IF left > 50 \/ (left = 50 /\ down % 2 = 1) THEN down + 1 ELSE down]

(* A written coordinate tag and reference agree with the exact             *)
(* decomposition of v.                                                     *)
Encodes(ref, tag, v, loc) ==
    /\ ref = (IF v < 0 THEN loc[1] ELSE IF v > 0 THEN loc[2] ELSE "")
    /\ tag[1] = <<ExactDMS(v).deg, 1>>
    /\ tag[2] = <<ExactDMS(v).min, 1>>
    /\ 100000 % tag[3][2] = 0
    /\ tag[3][1] * (100000 \div tag[3][2]) = ExactDMS(v).sec
    /\ \A k \in 1..3 : tag[k][1] >= 0 /\ tag[k][2] > 0

(* C8: the GPS block written for (lat, lng) holds, on each axis, the       *)
(* reference letter of the sign, the integer degrees of |v|, the integer   *)
(* minutes of the fractional degrees and the remaining seconds rounded to  *)
(* 5 decimals, none of them negative.                                      *)
C8_EncodeCoordinate ==
    query.op = "write_lat_lng" =>
        LET gps == photos[query.photo].GPS
        IN /\ Encodes(gps.GPSLatitudeRef, gps.GPSLatitude, query.lat, <<"S", "N">>)
           /\ Encodes(gps.GPSLongitudeRef, gps.GPSLongitude, query.lng, <<"W", "E">>)

-----------------------------------------------------------------------------
(* Properties of main(), under MainSpec *)

(* C4: an error raised for one photo, by the timestamp extraction or by    *)
(* search, does not end the run: the photos after it are still taken.      *)
C4_FailureConfined ==
    pc = "crashed" =>
        err \notin {"exif tags not found", "original != digitized",
                    "No data available", "No interval", "Max delta"}

HasGPSTag(exif) ==
    \E tag \in {"GPSLatitude", "GPSLongitude"} : tag \in DOMAIN exif.GPS

=============================================================================
